---- MODULE Spec2Model ----
(***************************************************************************)
(* A model of the tasker crate: the DSK graph container (src/src/dsk.rs),  *)
(* the memoizing Cache node (src/src/cache.rs) and the Task trait          *)
(* (src/src/lib.rs).  A container is a map from keys to Cache nodes; a     *)
(* Cache owns a task (its calculation) and an optional result.  The        *)
(* recursive routines of the crate (find_cycles, read_dependencies, get)   *)
(* are RECURSIVE operators that follow the code statement by statement.    *)
(***************************************************************************)
EXTENDS Integers, Sequences, FiniteSets, TLC

\* ------------------------------------------------------------------ bounds
\* The keys callers use ("All keys are caller-chosen string identifiers").
Keys == {"X", "Y", "Z"}
\* The values a task's execute may produce (the output type O).
Values == {0, 1}
\* Longest dependency list of a task, and longest key list given to cull.
MaxDeps == 2
\* Call frames the thread's stack holds before the process aborts with a
\* stack overflow.  A walk over n keys that terminates never nests deeper
\* than n + 1 frames, so any limit above Cardinality(Keys) + 1 is exact.
StackLimit == 6

\* ----------------------------------------------------------------- helpers
\* Sequences of pairwise distinct keys, at most n long.
KeyLists(n) ==
    {s \in UNION {[1..m -> Keys] : m \in 0..n} :
        \A i, j \in 1..Len(s) : i # j => s[i] # s[j]}

\* The dependency lists (Task::dependencies) the model's tasks declare.
DepLists == KeyLists(MaxDeps)

\* The elements of a sequence.
Range(s) == {s[i] : i \in 1..Len(s)}

\* Option<V>: None is the empty sequence, Some(v) is <<v>>.
None == <<>>
Some(v) == <<v>>

\* A task (lib.rs, trait Task): what the model keeps of it is its fixed
\* dependency list; what its execute returns is chosen by the environment.
Task(deps) == [deps |-> deps]

\* Cache::from(task): result None, calculation the task.
Cache_from(task) == [result |-> None, calculation |-> task]

\* Cache::dependencies: forwards to the owned task.
Cache_dependencies(c) == c.calculation.deps

\* The empty BTreeMap / function.
EmptyMap == [k \in {} |-> 0]

\* BTreeMap::insert(key, node).
MapInsert(m, key, node) ==
    [k \in DOMAIN m \cup {key} |-> IF k = key THEN node ELSE m[k]]

\* BTreeMap::retain(|key, _| keep.contains(key)).
MapRetain(m, keep) == [k \in DOMAIN m \cap keep |-> m[k]]

\* ExecuteError values and Ok, as uniform records.
Ok(payload) == [kind |-> "Ok", payload |-> payload]
Err(kind, payload) == [kind |-> kind, payload |-> payload]

\* ------------------------------------------------- check_cyclic_dependencies
\* A find_cycles that keeps the visited set across sibling dependencies.
VisitedKept(visited) == visited

\* dsk.rs line 111, `visited.clear()`: the visited set after a dependency's
\* walk has returned Ok.
VisitedAfterDep(visited) == {}

\* A walk's outcome: kind is "Ok", "CyclicDependency" (payload the stack,
\* root to the repeated key) or "StackOverflow" (the recursion outgrew the
\* thread's stack and the process aborted); visited and stack are the two
\* collections the walk mutates.
WalkResult(kind, payload, visited, stack) ==
    [kind |-> kind, payload |-> payload, visited |-> visited, stack |-> stack]

RECURSIVE find_cycles(_, _, _, _), find_cycles_deps(_, _, _, _, _)

\* The `for dep in t.dependencies()` loop of find_cycles, from index i on.
find_cycles_deps(d, deps, i, visited, stack) ==
    IF i > Len(deps)
    THEN WalkResult("Ok", <<>>, visited, stack)
    ELSE LET r == find_cycles(d, deps[i], visited, stack)
         IN  IF r.kind # "Ok"
             THEN r
             ELSE find_cycles_deps(d, deps, i + 1,
                                   VisitedAfterDep(r.visited), r.stack)

\* A find_cycles that leaves its key on the stack when it returns Ok (no
\* stack.pop()).
find_cycles_nopop(d, root, visited, stack) ==
    IF Len(stack) >= StackLimit
    THEN WalkResult("StackOverflow", <<>>, visited, stack)
    ELSE LET pushed == Append(stack, root)
         IN  IF root \in visited
             THEN WalkResult("CyclicDependency", pushed, visited, pushed)
             ELSE LET seen == visited \cup {root}
                  IN  IF root \in DOMAIN d
                      THEN find_cycles_deps(d, Cache_dependencies(d[root]),
                                            1, seen, pushed)
                      ELSE WalkResult("Ok", <<>>, seen, pushed)

\* A find_cycles that fails on a key that has no node, as DSK::get does.
find_cycles_strict(d, root, visited, stack) ==
    IF Len(stack) >= StackLimit
    THEN WalkResult("StackOverflow", <<>>, visited, stack)
    ELSE LET pushed == Append(stack, root)
         IN  IF root \in visited
             THEN WalkResult("CyclicDependency", pushed, visited, pushed)
             ELSE IF root \notin DOMAIN d
             THEN WalkResult("MissingDependency", <<root>>, visited, pushed)
             ELSE LET r == find_cycles_deps(d, Cache_dependencies(d[root]), 1,
                                            visited \cup {root}, pushed)
                  IN  IF r.kind # "Ok"
                      THEN r
                      ELSE WalkResult("Ok", <<>>, r.visited,
                                      SubSeq(r.stack, 1, Len(r.stack) - 1))

\* fn find_cycles(dsk, root, visited, stack).
find_cycles(d, root, visited, stack) ==
    IF Len(stack) >= StackLimit
    THEN WalkResult("StackOverflow", <<>>, visited, stack)
    ELSE LET pushed == Append(stack, root)
         IN  IF root \in visited
             THEN WalkResult("CyclicDependency", pushed, visited, pushed)
             ELSE LET seen == visited \cup {root}
                      r == IF root \in DOMAIN d
                           THEN find_cycles_deps(d, Cache_dependencies(d[root]),
                                                 1, seen, pushed)
                           ELSE WalkResult("Ok", <<>>, seen, pushed)
                  IN  IF r.kind # "Ok"
                      THEN r
                      ELSE WalkResult("Ok", <<>>, r.visited,
                                      SubSeq(r.stack, 1, Len(r.stack) - 1))

\* DSK::check_cyclic_dependencies(root): Ok, Err(CyclicDependency(path)), or
\* the stack overflow of a walk that never returns.
check_cyclic_dependencies(d, root) ==
    LET r == find_cycles(d, root, {}, <<>>)
    IN  IF r.kind = "Ok" THEN Ok(<<>>) ELSE Err(r.kind, r.payload)

\* ---------------------------------------------------------------- DSK::cull
RECURSIVE read_dependencies(_, _, _), read_dependencies_deps(_, _, _, _)

\* The `for dep in task.dependencies()` loop of read_dependencies.
read_dependencies_deps(d, deps, i, required) ==
    IF i > Len(deps)
    THEN [kind |-> "Ok", payload |-> <<>>, required |-> required]
    ELSE LET r == read_dependencies(d, deps[i], required)
         IN  IF r.kind # "Ok"
             THEN r
             ELSE read_dependencies_deps(d, deps, i + 1, r.required)

\* A read_dependencies that records the key and does not follow its
\* dependencies.
read_dependencies_shallow(d, key, required) ==
    IF key \in required
    THEN [kind |-> "Ok", payload |-> <<>>, required |-> required]
    ELSE IF key \in DOMAIN d
         THEN [kind |-> "Ok", payload |-> <<>>, required |-> required \cup {key}]
         ELSE [kind |-> "MissingDependency", payload |-> <<key>>,
               required |-> required]

\* A read_dependencies that passes over a key that has no node.
read_dependencies_lenient(d, key, required) ==
    IF key \in required \/ key \notin DOMAIN d
    THEN [kind |-> "Ok", payload |-> <<>>, required |-> required]
    ELSE read_dependencies_deps(d, Cache_dependencies(d[key]), 1,
                                required \cup {key})

\* fn read_dependencies(dsk, key, required).
read_dependencies(d, key, required) ==
    IF key \in required
    THEN [kind |-> "Ok", payload |-> <<>>, required |-> required]
    ELSE IF key \in DOMAIN d
         THEN read_dependencies_deps(d, Cache_dependencies(d[key]), 1,
                                     required \cup {key})
         ELSE [kind |-> "MissingDependency", payload |-> <<key>>,
               required |-> required]

\* A cull that keeps the listed keys only, not what they depend on.
cull_direct(d, keys) ==
    LET r == read_dependencies_deps(d, keys, 1, {})
    IN  IF r.kind # "Ok"
        THEN [kind |-> r.kind, payload |-> r.payload, dsk |-> d]
        ELSE [kind |-> "Ok", payload |-> <<>>, dsk |-> MapRetain(d, Range(keys))]

\* DSK::cull(keys): the loop over keys, then retain.  The result is Ok with
\* the culled map, or the error of the first read_dependencies that failed.
cull(d, keys) ==
    LET r == read_dependencies_deps(d, keys, 1, {})
    IN  IF r.kind # "Ok"
        THEN [kind |-> r.kind, payload |-> r.payload, dsk |-> d]
        ELSE [kind |-> "Ok", payload |-> <<>>, dsk |-> MapRetain(d, r.required)]

\* ------------------------------------------------------------- Cache::get
\* What the environment decides about the tasks' execute during one call:
\* the tasks in fails return Err, every other task returns Ok(value).  A call
\* ends at the first Err, so at most one task fails in it.
Outcomes == [fails : {{}} \cup {{k} : k \in Keys}, value : Values]

\* The dependency snapshots (the `cache` argument) callers pass to get.
Snapshots == {EmptyMap, [k \in Keys |-> 0]}

\* Task::execute(cache) of the task stored under key.  NullTask is the one
\* error the crate's own tasks return.
Task_execute(key, cache, env) ==
    IF key \in env.fails THEN Err("NullTask", <<>>) ELSE Ok(<<env.value>>)

\* A Cache::get that runs the task even when a result is stored.
Cache_get_always(c, cache, exec) ==
    IF exec.kind # "Ok"
    THEN [kind |-> exec.kind, payload |-> exec.payload, node |-> c,
          executed |-> TRUE]
    ELSE [kind |-> "Ok", payload |-> exec.payload,
          node |-> [c EXCEPT !.result = exec.payload], executed |-> TRUE]

\* A Cache::get that returns the computed value without storing it.
Cache_get_nostore(c, cache, exec) ==
    IF c.result # None
    THEN [kind |-> "Ok", payload |-> c.result, node |-> c, executed |-> FALSE]
    ELSE [kind |-> exec.kind, payload |-> exec.payload, node |-> c,
          executed |-> TRUE]

\* A Cache::get that moves the stored result out of the node (Option::take).
Cache_get_take(c, cache, exec) ==
    IF c.result # None
    THEN [kind |-> "Ok", payload |-> c.result,
          node |-> [c EXCEPT !.result = None], executed |-> FALSE]
    ELSE IF exec.kind # "Ok"
         THEN [kind |-> exec.kind, payload |-> exec.payload, node |-> c,
               executed |-> TRUE]
         ELSE [kind |-> "Ok", payload |-> exec.payload,
               node |-> [c EXCEPT !.result = exec.payload], executed |-> TRUE]

\* A Cache::get that stores a default value when execute fails.
Cache_get_latch(c, cache, exec) ==
    IF c.result # None
    THEN [kind |-> "Ok", payload |-> c.result, node |-> c, executed |-> FALSE]
    ELSE IF exec.kind # "Ok"
         THEN [kind |-> exec.kind, payload |-> exec.payload,
               node |-> [c EXCEPT !.result = Some(0)], executed |-> TRUE]
         ELSE [kind |-> "Ok", payload |-> exec.payload,
               node |-> [c EXCEPT !.result = exec.payload], executed |-> TRUE]

\* Cache::get(cache): the stored result if there is one, else the task's
\* execute, whose value is stored on success.  exec is what execute returns
\* if it is invoked; executed tells whether it was.
Cache_get(c, cache, exec) ==
    IF c.result # None
    THEN [kind |-> "Ok", payload |-> c.result, node |-> c, executed |-> FALSE]
    ELSE IF exec.kind # "Ok"
         THEN [kind |-> exec.kind, payload |-> exec.payload, node |-> c,
               executed |-> TRUE]
         ELSE [kind |-> "Ok", payload |-> exec.payload,
               node |-> [c EXCEPT !.result = exec.payload], executed |-> TRUE]

\* --------------------------------------------------------------- DSK::get
\* What a resolution carries through its recursive calls: the container, the
\* caller's snapshot, and the log of the execute invocations made so far
\* (the key, the snapshot execute was given, and whether it returned Ok).
GetResult(kind, payload, st) == [kind |-> kind, payload |-> payload, st |-> st]

RECURSIVE get(_, _, _, _), get_deps(_, _, _, _, _),
          get_deps_unchecked(_, _, _, _, _), get_deps_skip_absent(_, _, _, _, _)

\* A dependency loop that passes over a dependency that has no node, as
\* find_cycles does.
get_deps_skip_absent(st, deps, i, env, depth) ==
    IF i > Len(deps)
    THEN GetResult("Ok", <<>>, st)
    ELSE IF deps[i] \notin DOMAIN st.dsk
    THEN get_deps_skip_absent(st, deps, i + 1, env, depth)
    ELSE LET r == get(st, deps[i], env, depth)
         IN  IF r.kind # "Ok"
             THEN r
             ELSE get_deps_skip_absent(r.st, deps, i + 1, env, depth)

\* A dependency loop that drops the error of a failed dependency (no `?`).
get_deps_unchecked(st, deps, i, env, depth) ==
    IF i > Len(deps)
    THEN GetResult("Ok", <<>>, st)
    ELSE LET r == get(st, deps[i], env, depth)
         IN  get_deps_unchecked(r.st, deps, i + 1, env, depth)

\* The `for dep in dependencies` loop of DSK::get, from index i on.
get_deps(st, deps, i, env, depth) ==
    IF i > Len(deps)
    THEN GetResult("Ok", <<>>, st)
    ELSE LET r == get(st, deps[i], env, depth)
         IN  IF r.kind # "Ok" THEN r ELSE get_deps(r.st, deps, i + 1, env, depth)

\* DSK::get(task_name, cache), depth frames deep.
get(st, task_name, env, depth) ==
    IF depth >= StackLimit
    THEN GetResult("StackOverflow", <<>>, st)
    ELSE IF task_name \notin DOMAIN st.dsk
    THEN GetResult("MissingDependency", <<task_name>>, st)
    ELSE LET r == get_deps(st, Cache_dependencies(st.dsk[task_name]), 1, env,
                           depth + 1)
         IN  IF r.kind # "Ok"
             THEN r
             ELSE IF task_name \notin DOMAIN r.st.dsk
             THEN GetResult("MissingDependency", <<task_name>>, r.st)
             ELSE LET g == Cache_get(r.st.dsk[task_name], r.st.cache,
                                     Task_execute(task_name, r.st.cache, env))
                      ev == IF g.executed
                            THEN <<[key |-> task_name, cache |-> r.st.cache,
                                    ok |-> g.kind = "Ok"]>>
                            ELSE <<>>
                  IN  GetResult(g.kind, g.payload,
                                [dsk |-> [r.st.dsk EXCEPT ![task_name] = g.node],
                                 cache |-> r.st.cache,
                                 log |-> r.st.log \o ev])

\* ------------------------------------------------------------------- state
VARIABLES
    dsk,        \* the container: DSK.0, a map from the present keys to Caches
    status,     \* "live"; "aborted" once a recursion overflowed the stack;
                \* "dropped" once a failed cull consumed the container
    ret,        \* the last call: operation and result
    executed    \* per key: execute was invoked on the node now under the key

vars == <<dsk, status, ret, executed>>

\* The record of a call: the operation, the key it was given (add_task, get),
\* the kind and payload of its result, and the log of the execute invocations
\* it made.
Call(op, args, kind, payload, log) ==
    [op |-> op, args |-> args, kind |-> kind, payload |-> payload, log |-> log]

\* The keys whose task a log shows executed.
LogKeys(log) == {log[i].key : i \in 1..Len(log)}

\* What a stack overflow leaves of the process.
StatusAfter(kind) == IF kind = "StackOverflow" THEN "aborted" ELSE "live"

\* DSK::new(): the empty container.
Init ==
    /\ dsk = EmptyMap
    /\ status = "live"
    /\ ret = Call("new", <<>>, "Ok", <<>>, <<>>)
    /\ executed = [k \in Keys |-> FALSE]

\* An add_task that inserts without looking for the key first.
add_task_overwrite(key, task) ==
    /\ status = "live"
    /\ LET inserted == MapInsert(dsk, key, Cache_from(task))
           r == check_cyclic_dependencies(inserted, key)
       IN  /\ dsk' = inserted
           /\ ret' = Call("add_task", <<key>>, r.kind, r.payload, <<>>)
           /\ status' = StatusAfter(r.kind)
           /\ executed' = [executed EXCEPT ![key] = FALSE]

\* An add_task that inserts the node and does not check for cycles.
add_task_nocheck(key, task) ==
    /\ status = "live"
    /\ IF key \in DOMAIN dsk
       THEN /\ ret' = Call("add_task", <<key>>, "TaskAlreadyExists", <<key>>, <<>>)
            /\ UNCHANGED <<dsk, status, executed>>
       ELSE /\ dsk' = MapInsert(dsk, key, Cache_from(task))
            /\ ret' = Call("add_task", <<key>>, "Ok", <<>>, <<>>)
            /\ status' = "live"
            /\ executed' = [executed EXCEPT ![key] = FALSE]

\* An add_task that takes the node out again when the check finds a cycle.
add_task_rollback(key, task) ==
    /\ status = "live"
    /\ IF key \in DOMAIN dsk
       THEN /\ ret' = Call("add_task", <<key>>, "TaskAlreadyExists", <<key>>, <<>>)
            /\ UNCHANGED <<dsk, status, executed>>
       ELSE LET inserted == MapInsert(dsk, key, Cache_from(task))
                r == check_cyclic_dependencies(inserted, key)
            IN  /\ dsk' = IF r.kind = "CyclicDependency" THEN dsk ELSE inserted
                /\ ret' = Call("add_task", <<key>>, r.kind, r.payload, <<>>)
                /\ status' = StatusAfter(r.kind)
                /\ executed' = [executed EXCEPT ![key] = FALSE]

\* DSK::add_task(key, task).
add_task(key, task) ==
    /\ status = "live"
    /\ IF key \in DOMAIN dsk
       THEN /\ ret' = Call("add_task", <<key>>, "TaskAlreadyExists", <<key>>, <<>>)
            /\ UNCHANGED <<dsk, status, executed>>
       ELSE LET inserted == MapInsert(dsk, key, Cache_from(task))
                r == check_cyclic_dependencies(inserted, key)
            IN  /\ dsk' = inserted
                /\ ret' = Call("add_task", <<key>>, r.kind, r.payload, <<>>)
                /\ status' = StatusAfter(r.kind)
                /\ executed' = [executed EXCEPT ![key] = FALSE]

\* DSK::get(task_name, cache), the tasks' execute behaving as env says.
DSK_get(task_name, cache, env) ==
    /\ status = "live"
    /\ LET r == get([dsk |-> dsk, cache |-> cache, log |-> <<>>],
                    task_name, env, 0)
       IN  /\ dsk' = r.st.dsk
           /\ ret' = Call("get", <<task_name>>, r.kind, r.payload,
                          r.st.log)
           /\ status' = StatusAfter(r.kind)
           /\ executed' = [k \in Keys |->
                              executed[k] \/ k \in LogKeys(r.st.log)]

\* DSK::cull(keys): consumes the container; Ok hands back the culled one, an
\* error hands back nothing.
DSK_cull(keys) ==
    /\ status = "live"
    /\ LET r == cull(dsk, keys)
       IN  /\ ret' = Call("cull", <<>>, r.kind, r.payload, <<>>)
           /\ IF r.kind = "Ok"
              THEN /\ dsk' = r.dsk
                   /\ status' = "live"
                   /\ executed' = [k \in Keys |->
                                      executed[k] /\ k \in DOMAIN r.dsk]
              ELSE /\ dsk' = EmptyMap
                   /\ status' = "dropped"
                   /\ executed' = [k \in Keys |-> FALSE]

Next ==
    \/ \E key \in Keys, deps \in DepLists : add_task(key, Task(deps))
    \/ \E task_name \in Keys, cache \in Snapshots, env \in Outcomes :
           DSK_get(task_name, cache, env)
    \/ \E keys \in KeyLists(MaxDeps) : DSK_cull(keys)

Spec == Init /\ [][Next]_vars

\* The same program with tasks whose execute always succeeds.
NextOk ==
    \/ \E key \in Keys, deps \in DepLists : add_task(key, Task(deps))
    \/ \E task_name \in Keys, cache \in Snapshots, value \in Values :
           DSK_get(task_name, cache, [fails |-> {}, value |-> value])
    \/ \E keys \in KeyLists(MaxDeps) : DSK_cull(keys)

SpecOk == Init /\ [][NextOk]_vars

\* ------------------------------------------------ the dependency relation
\* The keys the nodes of S declare as dependencies.
Succ(d, S) == UNION {Range(Cache_dependencies(d[k])) : k \in S \cap DOMAIN d}

RECURSIVE Closure(_, _)
Closure(d, S) ==
    LET T == S \cup Succ(d, S) IN IF T = S THEN S ELSE Closure(d, T)

\* The keys reachable from k by following declared dependencies one or more
\* times (a key with no node is reached but leads nowhere).
Reach(d, k) == Closure(d, Succ(d, {k}))

\* The declared-dependency relation among the nodes present has a cycle.
Cyclic(d) == \E k \in DOMAIN d : k \in Reach(d, k)

\* A cycle can be reached from k (k itself may lie on it).
CycleFrom(d, k) == \E j \in (Reach(d, k) \cup {k}) \cap DOMAIN d : j \in Reach(d, j)

\* Node k is in the Computed state.
Computed(d, k) == k \in DOMAIN d /\ d[k].result # None

\* ------------------------------------------------------------------ claims
\* The last call was an add_task that inserted its node (the key was new).
Inserted == ret.op = "add_task" /\ ret.kind # "TaskAlreadyExists"

\* C1: the add_task call whose insertion first makes the declared-dependency
\* relation among the present nodes cyclic returns Err(CyclicDependency).
C1_CycleDetectionComplete ==
    [][(ret'.op = "add_task" /\ ~Cyclic(dsk) /\ Cyclic(dsk'))
           => ret'.kind = "CyclicDependency"]_vars

\* C2: the cycle check of add_task always finishes, with Ok or with
\* Err(CyclicDependency): its recursion never grows without bound.
C2_CycleCheckTerminates ==
    ret.op = "add_task"
        => ret.kind \in {"Ok", "CyclicDependency", "TaskAlreadyExists"}

\* C3: an add_task of a new key from which no cycle of declared dependencies
\* can be reached returns Ok; diamonds are not reported as cycles.
C3_CycleDetectionSound ==
    (Inserted /\ ~CycleFrom(dsk, ret.args[1])) => ret.kind = "Ok"

\* C3 witness: add_task returned Ok for a node k with dependencies <<b, c>>
\* where b depends on c too: c is reached from k along two paths.
C3_Witness ==
    /\ Inserted
    /\ ret.kind = "Ok"
    /\ \E b, c \in DOMAIN dsk :
          /\ Cardinality({ret.args[1], b, c}) = 3
          /\ Cache_dependencies(dsk[ret.args[1]]) = <<b, c>>
          /\ c \in Range(Cache_dependencies(dsk[b]))

\* The log executes no key twice.
NoRepeat(log) == \A i, j \in 1..Len(log) : log[i].key = log[j].key => i = j

\* C4: the snapshot a get hands to a task's execute holds, for every
\* declared dependency of that task, the dependency's computed value.
C4_DependencyResultsInSnapshot ==
    ret.op = "get" =>
        \A i \in 1..Len(ret.log) :
            \A dep \in Range(Cache_dependencies(dsk[ret.log[i].key])) :
                /\ dep \in DOMAIN ret.log[i].cache
                /\ Computed(dsk, dep)
                /\ dsk[dep].result = Some(ret.log[i].cache[dep])

\* C5 as claimed: a node's task is executed at most once between the node's
\* creation and its removal, whether execute succeeds or fails.
C5_ExecuteAtMostOnce ==
    [][ret'.op = "get" =>
          /\ NoRepeat(ret'.log)
          /\ \A k \in LogKeys(ret'.log) : ~executed[k]]_vars

\* C5 as amended: a node's task is never executed once the node holds a
\* result, so at most one execute per node succeeds; a failed execute may be
\* repeated by a later get.
C5_NoExecuteOnceComputed ==
    [][ret'.op = "get" =>
          /\ NoRepeat(ret'.log)
          /\ \A k \in LogKeys(ret'.log) : ~Computed(dsk, k)]_vars

\* C5 witness: a get of a node that was executed before and holds a result
\* returned Ok without executing anything.
C5_Witness ==
    /\ ret.op = "get"
    /\ ret.kind = "Ok"
    /\ ret.log = <<>>
    /\ executed[ret.args[1]]
    /\ Computed(dsk, ret.args[1])

\* C6: when every execute succeeds, gets on an acyclic container execute
\* each node's task at most once in total, shared dependencies included.
C6_NoRedundantExecution ==
    [][(ret'.op = "get" /\ ~Cyclic(dsk)) =>
          /\ NoRepeat(ret'.log)
          /\ \A k \in LogKeys(ret'.log) : ~executed[k]]_vars

\* C6 witness: one get executed three nodes, the first of them a declared
\* dependency of both others.
C6_Witness ==
    /\ ret.op = "get"
    /\ ret.kind = "Ok"
    /\ ~Cyclic(dsk)
    /\ Len(ret.log) = 3
    /\ \A i \in 2..3 :
          ret.log[1].key \in Range(Cache_dependencies(dsk[ret.log[i].key]))

\* C7: a get executes a node only when every key reachable from it through
\* declared dependencies is already Computed; so get(K) returns Ok only if
\* all of K's transitive dependencies are Computed, and K is not executed in
\* a call in which one of them failed to resolve.
C7_ResolutionOrder ==
    ret.op = "get" =>
        /\ \A i \in 1..Len(ret.log) :
              \A j \in Reach(dsk, ret.log[i].key) :
                  /\ Computed(dsk, j)
                  /\ \A m \in i..Len(ret.log) : ret.log[m].key # j
        /\ ret.kind = "Ok" =>
              \A j \in Reach(dsk, ret.args[1]) \cup {ret.args[1]} :
                  Computed(dsk, j)
        /\ (\E j \in Reach(dsk, ret.args[1]) : ~Computed(dsk, j)) =>
              ret.args[1] \notin LogKeys(ret.log)

\* C7 witness: a get executed a chain of three nodes, dependencies first.
C7_Witness ==
    /\ ret.op = "get"
    /\ ret.kind = "Ok"
    /\ Len(ret.log) = 3
    /\ ret.log[3].key = ret.args[1]
    /\ ret.log[1].key \in Range(Cache_dependencies(dsk[ret.log[2].key]))
    /\ ret.log[2].key \in Range(Cache_dependencies(dsk[ret.log[3].key]))

\* C8: add_task with a key already present returns
\* Err(TaskAlreadyExists(key)) and leaves the container as it was.
C8_DuplicateKeyRejected ==
    [][(ret'.op = "add_task" /\ ret'.args[1] \in DOMAIN dsk) =>
          /\ ret'.kind = "TaskAlreadyExists"
          /\ ret'.payload = ret'.args
          /\ dsk' = dsk]_vars

\* C8 witness: add_task was refused for a key whose node is Computed.
C8_Witness ==
    /\ ret.op = "add_task"
    /\ ret.kind = "TaskAlreadyExists"
    /\ Computed(dsk, ret.args[1])

\* C9: in every state of a container, the declared-dependency relation among
\* the nodes present has no cycle.
C9_AcyclicAtAllTimes == status = "live" => ~Cyclic(dsk)

\* C10: when add_task(key, task) returns Err(CyclicDependency), the
\* container holds key with a fresh Uncomputed node wrapping task, and every
\* entry it held before is unchanged.
C10_CyclicInsertionKept ==
    [][(ret'.op = "add_task" /\ ret'.kind = "CyclicDependency") =>
          /\ ret'.args[1] \notin DOMAIN dsk
          /\ DOMAIN dsk' = DOMAIN dsk \cup {ret'.args[1]}
          /\ \E deps \in DepLists :
                /\ add_task(ret'.args[1], Task(deps))
                /\ dsk'[ret'.args[1]] = Cache_from(Task(deps))
          /\ \A k \in DOMAIN dsk : dsk'[k] = dsk[k]]_vars

\* C10 witness: add_task returned Err(CyclicDependency), the new node is in
\* the container, Uncomputed, beside a Computed node from before.
C10_Witness ==
    /\ ret.op = "add_task"
    /\ ret.kind = "CyclicDependency"
    /\ ret.args[1] \in DOMAIN dsk
    /\ dsk[ret.args[1]].result = None
    /\ \E k \in DOMAIN dsk : Computed(dsk, k)

\* The keys reachable from the keys of a list by following declared
\* dependencies zero or more times.
ReachFrom(d, keys) == Closure(d, Range(keys))

\* C11: when every key reachable from the required keys has a node, cull
\* returns Ok with a container whose keys are exactly the reachable keys,
\* also when the reachable part contains a cycle.
C11_CullKeepsReachable ==
    status = "live" =>
        \A keys \in KeyLists(MaxDeps) :
            ReachFrom(dsk, keys) \subseteq DOMAIN dsk =>
                /\ cull(dsk, keys).kind = "Ok"
                /\ DOMAIN cull(dsk, keys).dsk = ReachFrom(dsk, keys)

\* C11 witness: a cull returned Ok and kept two nodes that lie on a cycle,
\* dropping the third key.
C11_Witness ==
    /\ ret.op = "cull"
    /\ ret.kind = "Ok"
    /\ Cardinality(DOMAIN dsk) = 2
    /\ \A k \in DOMAIN dsk : k \in Reach(dsk, k)

\* C13: cull returns Err(MissingDependency(m)) exactly when a required key,
\* or a key reachable from one, has no node; m is such a key.
C13_CullMissingDependency ==
    status = "live" =>
        \A keys \in KeyLists(MaxDeps) :
            LET r == cull(dsk, keys)
                absent == ReachFrom(dsk, keys) \ DOMAIN dsk
            IN  /\ r.kind = "MissingDependency" <=> absent # {}
                /\ r.kind = "MissingDependency" =>
                      /\ Len(r.payload) = 1
                      /\ r.payload[1] \in absent

\* C13 witness: a cull failed with MissingDependency and the container is
\* gone.
C13_Witness ==
    /\ ret.op = "cull"
    /\ ret.kind = "MissingDependency"
    /\ Len(ret.payload) = 1
    /\ status = "dropped"

\* C12: with tasks that always succeed, a get of K on a container without
\* cycles returns Err(MissingDependency(m)) whenever K or a key reachable
\* from K has no node; m is such a key, and K's task is not executed.
C12_GetMissingDependency ==
    LET K == ret.args[1]
        absent == (Reach(dsk, K) \cup {K}) \ DOMAIN dsk
    IN  (ret.op = "get" /\ ~Cyclic(dsk) /\ absent # {}) =>
            /\ ret.kind = "MissingDependency"
            /\ Len(ret.payload) = 1
            /\ ret.payload[1] \in absent
            /\ K \notin LogKeys(ret.log)

\* C12 witness: a get failed with MissingDependency naming a key other than
\* the requested one, after it had executed a dependency.
C12_Witness ==
    /\ ret.op = "get"
    /\ ~Cyclic(dsk)
    /\ ret.kind = "MissingDependency"
    /\ ret.payload[1] # ret.args[1]
    /\ Len(ret.log) >= 1

\* C14: a Computed node stays Computed with its value through every later
\* get and add_task, its task is not executed again, and a get of its key
\* returns the stored value.
C14_ComputedIsAbsorbing ==
    [][\A k \in DOMAIN dsk :
          (Computed(dsk, k) /\ ret'.op \in {"get", "add_task"}) =>
              /\ k \in DOMAIN dsk'
              /\ dsk'[k] = dsk[k]
              /\ k \notin LogKeys(ret'.log)
              /\ (ret'.op = "get" /\ ret'.args[1] = k) =>
                    /\ ret'.kind = "Ok"
                    /\ ret'.payload = dsk[k].result]_vars

\* C14 witness: a get of a Computed node that has dependencies returned the
\* stored value 1 and executed nothing.
C14_Witness ==
    /\ ret.op = "get"
    /\ ret.kind = "Ok"
    /\ ret.log = <<>>
    /\ Computed(dsk, ret.args[1])
    /\ Cache_dependencies(dsk[ret.args[1]]) # <<>>
    /\ ret.payload = Some(1)
    /\ ret.payload = dsk[ret.args[1]].result

\* C15: when a task's execute fails in a get, the get ends there with that
\* error and the node is left as it was, Uncomputed; a get that reaches an
\* Uncomputed node executes its task, also after a failure, and stores the
\* value when execute succeeds.
C15_FailureLeavesNodeRetryable ==
    [][ret'.op = "get" =>
          /\ \A i \in 1..Len(ret'.log) :
                LET e == ret'.log[i]
                IN  /\ e.key \in DOMAIN dsk /\ e.key \in DOMAIN dsk'
                    /\ ~e.ok =>
                          /\ i = Len(ret'.log)
                          /\ ret'.kind = "NullTask"
                          /\ dsk'[e.key] = dsk[e.key]
                          /\ dsk'[e.key].result = None
                    /\ e.ok => Computed(dsk', e.key)
          /\ (ret'.kind = "Ok" /\ ~Computed(dsk, ret'.args[1])) =>
                /\ ret'.log # <<>>
                /\ ret'.log[Len(ret'.log)].key = ret'.args[1]
                /\ ret'.log[Len(ret'.log)].ok
                /\ dsk'[ret'.args[1]].result = ret'.payload]_vars

\* C15 witness: a get ended with the error of a task's execute; the node was
\* executed and holds no result, while its dependency was computed.
C15_Witness ==
    /\ ret.op = "get"
    /\ ret.kind = "NullTask"
    /\ Len(ret.log) = 2
    /\ ~ret.log[2].ok
    /\ ret.log[2].key = ret.args[1]
    /\ executed[ret.args[1]]
    /\ dsk[ret.args[1]].result = None

\* C16: the path of an Err(CyclicDependency(path)) starts with the root,
\* each step of it is a declared dependency of a node present, and its last
\* key occurs earlier in it.
C16_CyclePathIsReal ==
    (ret.op = "add_task" /\ ret.kind = "CyclicDependency") =>
        LET path == ret.payload
        IN  /\ Len(path) >= 2
            /\ path[1] = ret.args[1]
            /\ \A i \in 1..(Len(path) - 1) :
                  /\ path[i] \in DOMAIN dsk
                  /\ path[i + 1] \in Range(Cache_dependencies(dsk[path[i]]))
            /\ \E i \in 1..(Len(path) - 1) : path[i] = path[Len(path)]

\* C16 witness: a reported path whose repeated key is not the root, found
\* under the root's second dependency.
C16_Witness ==
    /\ ret.op = "add_task"
    /\ ret.kind = "CyclicDependency"
    /\ Len(ret.payload) >= 3
    /\ ret.payload[Len(ret.payload)] # ret.payload[1]
    /\ Len(Cache_dependencies(dsk[ret.args[1]])) = 2
    /\ ret.payload[2] = Cache_dependencies(dsk[ret.args[1]])[2]

\* C17: a dependency key without a node never makes add_task fail: no
\* add_task returns MissingDependency, and an insertion after which the
\* nodes present have no cycle returns Ok, in whatever order tasks come.
C17_DanglingDependenciesTolerated ==
    ret.op = "add_task" =>
        /\ ret.kind # "MissingDependency"
        /\ (Inserted /\ ~Cyclic(dsk)) => ret.kind = "Ok"

\* C17 witness: add_task returned Ok for a node that declares a dependency
\* without a node and that an earlier node depends on.
C17_Witness ==
    /\ Inserted
    /\ ret.kind = "Ok"
    /\ \E dep \in Range(Cache_dependencies(dsk[ret.args[1]])) :
          dep \notin DOMAIN dsk
    /\ \E j \in DOMAIN dsk \ {ret.args[1]} :
          ret.args[1] \in Range(Cache_dependencies(dsk[j]))

\* C18: add_task calls that return Ok, and culls, keep a container free of
\* cycles, and a get on such a container finishes with Ok,
\* MissingDependency or a task's error: its recursion does not overflow.
C18_GetTerminates ==
    [][~Cyclic(dsk) =>
          /\ (ret'.op = "add_task" /\ ret'.kind = "Ok") => ~Cyclic(dsk')
          /\ ret'.op = "cull" => ~Cyclic(dsk')
          /\ ret'.op = "get" =>
                /\ ret'.kind \in {"Ok", "MissingDependency", "NullTask"}
                /\ status' = "live"]_vars

\* C18 witness: a get on a container of three nodes without cycles, two of
\* them reachable from the requested key, returned.
C18_Witness ==
    /\ ret.op = "get"
    /\ status = "live"
    /\ ~Cyclic(dsk)
    /\ DOMAIN dsk = Keys
    /\ Cardinality(Reach(dsk, ret.args[1])) = 2

\* Every declared dependency of a node of d has a node in d.
Closed(d) == Succ(d, DOMAIN d) \subseteq DOMAIN d

\* C19: in the container of a cull that returned Ok every declared
\* dependency of a retained node is retained and every retained node is as
\* it was before the cull; after such a cull no get of a retained key
\* returns MissingDependency.
C19_CulledIsClosed ==
    status = "live" =>
        /\ \A keys \in KeyLists(MaxDeps) :
              LET r == cull(dsk, keys)
              IN  r.kind = "Ok" =>
                      /\ Closed(r.dsk)
                      /\ \A k \in DOMAIN r.dsk :
                            k \in DOMAIN dsk /\ r.dsk[k] = dsk[k]
        /\ (ret.op = "cull" /\ ret.kind = "Ok") =>
              \A k \in DOMAIN dsk, cache \in Snapshots, env \in Outcomes :
                  get([dsk |-> dsk, cache |-> cache, log |-> <<>>],
                      k, env, 0).kind # "MissingDependency"

\* C19 witness: a cull returned Ok and kept a Computed node together with an
\* Uncomputed node that depends on it.
C19_Witness ==
    /\ ret.op = "cull"
    /\ ret.kind = "Ok"
    /\ Cardinality(DOMAIN dsk) = 2
    /\ \E k, j \in DOMAIN dsk :
          /\ Computed(dsk, k)
          /\ ~Computed(dsk, j)
          /\ k \in Range(Cache_dependencies(dsk[j]))

====
